---- MODULE Spec2Model ----
(***************************************************************************)
(* A model of chained/functions/lambded.py: LambdaExpr (a builder holding  *)
(* a tuple of fragments), LambdaVar / LambdaArgs / LambdaKwargs (the       *)
(* registered placeholders) and the module-level set _registered_vars.     *)
(*                                                                         *)
(* A Python str is a sequence of one-character strings, so that            *)
(* concatenation, comparison by code point (sorted) and str.isidentifier   *)
(* are computed character by character.  A Python value is a record        *)
(* [t, s, n]: a str (t = "str", its characters in s), an int (t = "int",   *)
(* its value in n), None (t = "none") or a reference to a builder          *)
(* (t = "obj", its heap index in n).                                       *)
(***************************************************************************)
EXTENDS Integers, Sequences, FiniteSets, TLC

VARIABLES
    registered,     \* _registered_vars: the set of registered names
    heap,           \* the builder objects created so far, in creation order
    argsInstance,   \* LambdaArgs.instance: 0 while the class has no such attribute
    kwargsInstance, \* LambdaKwargs.instance: 0 while the class has no such attribute
    ret,            \* the last operation: its name, operands and outcome
    evalRuns,       \* per builder: how many times _eval was entered
    evalDone,       \* per builder: how many times _eval stored a compiled function
    first,          \* per builder: the function its first successful invocation called
    limit           \* the number of builder objects this run may create

vars == <<registered, heap, argsInstance, kwargsInstance, ret, evalRuns, evalDone, first, limit>>

----------------------------------------------------------------------------
(* Bounds of the model. *)

\* the number of builder objects a run of Spec creates (StepSpec applies one
\* operation to each of its states)
MaxHeap == 2
\* how many times a run enters _eval on one builder
MaxEvals == 2
\* how many of the infix operator methods (InfixOps) a run may use
NumInfix == 2
\* how many of the prefix wrapper methods (WrapOps) a run may use
NumWrap == 2
\* the longest positional / keyword argument list handed to `_`
MaxArgs == 2

----------------------------------------------------------------------------
(* Python strings and values. *)

Lower == <<"a", "b", "c", "d", "e", "f", "g", "h", "i", "j", "k", "l", "m",
           "n", "o", "p", "q", "r", "s", "t", "u", "v", "w", "x", "y", "z">>
Upper == <<"A", "B", "C", "D", "E", "F", "G", "H", "I", "J", "K", "L", "M",
           "N", "O", "P", "Q", "R", "S", "T", "U", "V", "W", "X", "Y", "Z">>
DigitSeq == <<"0", "1", "2", "3", "4", "5", "6", "7", "8", "9">>

Range(f) == {f[k] : k \in DOMAIN f}
IndexOf(c, f) == CHOOSE k \in DOMAIN f : f[k] = c

Letters == Range(Lower) \cup Range(Upper)
Digits == Range(DigitSeq)

\* ord(c), for the characters a name handed to LambdaVar or a marker's name holds
Ord(c) ==
    CASE c \in Range(Lower) -> 96 + IndexOf(c, Lower)
      [] c \in Range(Upper) -> 64 + IndexOf(c, Upper)
      [] c \in Digits -> 47 + IndexOf(c, DigitSeq)
      [] c = "_" -> 95
      [] c = "*" -> 42

\* a < b for two Python strings: the first differing code point decides, a
\* proper prefix is smaller
RECURSIVE StrLess(_, _)
StrLess(a, b) ==
    IF b = <<>> THEN FALSE
    ELSE IF a = <<>> THEN TRUE
    ELSE IF Ord(Head(a)) # Ord(Head(b)) THEN Ord(Head(a)) < Ord(Head(b))
    ELSE StrLess(Tail(a), Tail(b))

\* sorted(S) for a set of strings
RECURSIVE Sorted(_)
Sorted(S) ==
    IF S = {} THEN <<>>
    ELSE LET m == CHOOSE a \in S : \A b \in S \ {a} : StrLess(a, b)
         IN <<m>> \o Sorted(S \ {m})

\* sep.join(parts) for a sequence of strings
RECURSIVE Join(_, _)
Join(sep, parts) ==
    IF parts = <<>> THEN <<>>
    ELSE IF Len(parts) = 1 THEN parts[1]
    ELSE parts[1] \o sep \o Join(sep, Tail(parts))

\* str.isidentifier, on the ASCII characters
IsIdentifier(s) ==
    /\ s # <<>>
    /\ s[1] \in Letters \cup {"_"}
    /\ \A k \in 2..Len(s) : s[k] \in Letters \cup Digits \cup {"_"}

\* keyword.kwlist, the entries the model's inputs can hit
KwList == {<<"i", "f">>, <<"i", "n">>, <<"i", "s">>, <<"o", "r">>, <<"a", "s">>,
           <<"d", "e", "l">>, <<"f", "o", "r">>, <<"n", "o", "t">>}

IsKeyword(s) == s \in KwList

StrV(s) == [t |-> "str", s |-> s, n |-> 0]
IntV(n) == [t |-> "int", s |-> <<>>, n |-> n]
NoneV == [t |-> "none", s |-> <<>>, n |-> 0]
ObjV(i) == [t |-> "obj", s |-> <<>>, n |-> i]

\* str(n) for an int: the decimal digits, most significant first
RECURSIVE NatDigits(_)
NatDigits(n) ==
    LET d == DigitSeq[(n % 10) + 1]
    IN IF n < 10 THEN <<d>> ELSE NatDigits(n \div 10) \o <<d>>

IntStr(n) == IF n < 0 THEN <<"-">> \o NatDigits(-n) ELSE NatDigits(n)

----------------------------------------------------------------------------
(* Builder objects. *)

\* the fixed fragments of the two variadic markers
ArgsName == <<"*", "a", "r", "g", "s">>
KwargsName == <<"*", "*", "k", "w", "a", "r", "g", "s">>

\* _lambda as LambdaExpr.__init__ leaves it: partial(_call_monkey_patcher, self)
Patcher == [set |-> "patcher", src |-> <<>>]
\* the _lambda slot of an object whose __init__ never assigned it
NoLambda == [set |-> "unset", src |-> <<>>]
\* _lambda after _eval: the function eval returned, named by its source text
Compiled(src) == [set |-> "compiled", src |-> src]

\* LambdaExpr(*tokens)
LambdaExpr(tokens) == [cls |-> "LambdaExpr", tokens |-> tokens, lam |-> Patcher]

\* the object LambdaVar(name) leaves behind: super().__init__(name)
LambdaVar(name) == [cls |-> "LambdaVar", tokens |-> <<StrV(name)>>, lam |-> Patcher]

\* the object a marker's __new__ makes: _tokens set, __init__ a no-op
Marker(cls, name) == [cls |-> cls, tokens |-> <<StrV(name)>>, lam |-> NoLambda]

RECURSIVE PyStr(_, _)
RECURSIVE StrOf(_, _)
RECURSIVE JoinStr(_, _)

\* ''.join(map(str, tokens))
JoinStr(tokens, h) ==
    IF tokens = <<>> THEN <<>>
    ELSE PyStr(Head(tokens), h) \o JoinStr(Tail(tokens), h)

\* LambdaExpr.__repr__ (and LambdaExpr.__str__)
ReprOf(o, h) == JoinStr(o.tokens, h)

\* str(o) for a builder: LambdaVar and its subclasses return the first fragment
StrOf(o, h) ==
    IF o.cls = "LambdaExpr" THEN JoinStr(o.tokens, h) ELSE PyStr(o.tokens[1], h)

\* str(v), which is also what an f-string's {v} gives
PyStr(v, h) ==
    CASE v.t = "str" -> v.s
      [] v.t = "int" -> IntStr(v.n)
      [] v.t = "none" -> <<"N", "o", "n", "e">>
      [] v.t = "obj" -> StrOf(h[v.n], h)

----------------------------------------------------------------------------
(* Compilation. *)

\* set(self._tokens) raises TypeError on a builder fragment: LambdaExpr.__hash__
\* returns a LambdaExpr, not an int
GetArgsRaises(o) == \E k \in 1..Len(o.tokens) : o.tokens[k].t = "obj"

\* LambdaExpr._get_args: sorted(set(self._tokens) & _registered_vars)
GetArgs(o, reg) ==
    Sorted({o.tokens[k].s : k \in {j \in 1..Len(o.tokens) : o.tokens[j].t = "str"}} \cap reg)

\* the text handed to eval: f'lambda {",".join(self._get_args())}:{self}'
LambdaSrc(o, reg, h) ==
    <<"l", "a", "m", "b", "d", "a", " ">> \o Join(<<",">>, GetArgs(o, reg))
        \o <<":">> \o StrOf(o, h)

\* a parameter list Python accepts: nothing follows **kwargs
HeaderOk(params) ==
    \A k \in 1..Len(params) : params[k] = KwargsName => k = Len(params)

\* the nesting depth of brackets after each prefix of the text never drops
\* below zero and ends at zero
RECURSIVE Depth(_, _)
Depth(body, k) ==
    IF k = 0 THEN 0
    ELSE Depth(body, k - 1)
         + (IF body[k] \in {"(", "["} THEN 1 ELSE IF body[k] \in {")", "]"} THEN -1 ELSE 0)

Balanced(body) ==
    /\ \A k \in 1..Len(body) : Depth(body, k) >= 0
    /\ Depth(body, Len(body)) = 0

\* a parenthesis that groups (it follows no callee) and holds a bare starred name
StarredGroup(body) ==
    \E k \in 1..(Len(body) - 1) :
        /\ body[k] = "(" /\ body[k + 1] = "*"
        /\ (k = 1 \/ body[k - 1] \notin Letters \cup Digits \cup {"_", ")", "]"})
        /\ \E c \in (k + 2)..Len(body) :
              /\ body[c] = ")"
              /\ \A j \in (k + 2)..(c - 1) : body[j] \notin {",", "(", ")"}

\* a starred name where an operand should be: at the start of the text or
\* right after a comparison or arithmetic operator
StarredOperand(body) ==
    \E k \in 1..Len(body) :
        /\ body[k] = "*"
        /\ (k = 1 \/ body[k - 1] \in {"=", "<", ">", "+", "-", "~", "!", "/", "%", "@",
                                      "&", "|", "^"})

\* a statement where the lambda's body should be: del ..., or target[key]=value
StatementBody(body) ==
    \/ Len(body) >= 4 /\ SubSeq(body, 1, 4) = <<"d", "e", "l", " ">>
    \/ \E k \in 1..(Len(body) - 1) :
          /\ body[k] = "]" /\ body[k + 1] = "="
          /\ (k + 2 > Len(body) \/ body[k + 2] # "=")

\* whether eval accepts `lambda <params>:<body>`: it raises SyntaxError on the
\* malformed texts below and the model takes every other text to compile
PyCompiles(params, body) ==
    /\ HeaderOk(params)
    /\ body # <<>>
    /\ Balanced(body)
    /\ ~StarredGroup(body)
    /\ ~StarredOperand(body)
    /\ ~StatementBody(body)

\* the outcome of LambdaExpr._eval on builder o
EvalOutcome(o, reg, h) ==
    IF GetArgsRaises(o) THEN "TypeError"
    ELSE IF ~PyCompiles(GetArgs(o, reg), StrOf(o, h)) THEN "SyntaxError"
    ELSE "ok"

----------------------------------------------------------------------------
(* The combinators: each builds the fragments of a new LambdaExpr. *)

IsBuilder(v) == v.t = "obj"
IsStr(v) == v.t = "str"

\* LambdaExpr.__getattr__: LambdaExpr('(', *self._tokens, f').{name}')
GetAttrExpr(o, name) ==
    LambdaExpr(<<StrV(<<"(">>)>> \o o.tokens \o <<StrV(<<")", ".">> \o name)>>)

\* LambdaExpr._collapse
CollapseNoParens(o, right, inter, h) ==
    IF IsBuilder(right)
    THEN LambdaExpr(o.tokens \o <<StrV(inter)>> \o h[right.n].tokens)
    ELSE LambdaExpr(o.tokens \o <<StrV(inter), right>>)
Collapse(o, right, inter, h) ==
    IF IsBuilder(right)
    THEN LambdaExpr(<<StrV(<<"(">>)>> \o o.tokens \o <<StrV(<<")">>), StrV(inter)>>
                    \o h[right.n].tokens)
    ELSE LambdaExpr(<<StrV(<<"(">>)>> \o o.tokens \o <<StrV(<<")">>), StrV(inter), right>>)

\* the comparison and arithmetic methods, in source order, each with the
\* inter_token it hands to _collapse
InfixOps == <<
    [name |-> "__eq__", tok |-> <<"=", "=">>],
    [name |-> "__ne__", tok |-> <<"!", "=">>],
    [name |-> "__lt__", tok |-> <<"<">>],
    [name |-> "__gt__", tok |-> <<">">>],
    [name |-> "__le__", tok |-> <<"<", "=">>],
    [name |-> "__ge__", tok |-> <<">", "=">>],
    [name |-> "__add__", tok |-> <<"+">>],
    [name |-> "__sub__", tok |-> <<"-">>],
    [name |-> "__mul__", tok |-> <<"*">>],
    [name |-> "__floordiv__", tok |-> <<"/", "/">>],
    [name |-> "__div__", tok |-> <<"/">>],
    [name |-> "__mod__", tok |-> <<"%">>],
    [name |-> "__pow__", tok |-> <<"*", "*">>],
    [name |-> "__matmul__", tok |-> <<"@">>],
    [name |-> "__lshift__", tok |-> <<"<", "<">>],
    [name |-> "__rshift__", tok |-> <<">", ">">>],
    [name |-> "__and__", tok |-> <<"&">>],
    [name |-> "__or__", tok |-> <<"|">>],
    [name |-> "__xor__", tok |-> <<"^">>] >>

\* the methods that wrap the fragments in `prefix ... )`, in source order;
\* __divmod__ takes another operand and drops it
WrapOps == <<
    [name |-> "__pos__", tok |-> <<"+", "(">>],
    [name |-> "__neg__", tok |-> <<"-", "(">>],
    [name |-> "__invert__", tok |-> <<"~", "(">>],
    [name |-> "__abs__", tok |-> <<"a", "b", "s", "(">>],
    [name |-> "__divmod__", tok |-> <<"d", "i", "v", "m", "o", "d", "(">>],
    [name |-> "__int__", tok |-> <<"i", "n", "t", "(">>],
    [name |-> "__float__", tok |-> <<"f", "l", "o", "a", "t", "(">>],
    [name |-> "__complex__", tok |-> <<"c", "o", "m", "p", "l", "e", "x", "(">>],
    [name |-> "__oct__", tok |-> <<"o", "c", "t", "(">>],
    [name |-> "__hex__", tok |-> <<"h", "e", "x", "(">>],
    [name |-> "__hash__", tok |-> <<"h", "a", "s", "h", "(">>],
    [name |-> "__nonzero__", tok |-> <<"b", "o", "o", "l", "(">>],
    [name |-> "__len__", tok |-> <<"l", "e", "n", "(">>],
    [name |-> "__iter__", tok |-> <<"i", "t", "e", "r", "(">>],
    [name |-> "__reversed__", tok |-> <<"r", "e", "v", "e", "r", "s", "e", "d", "(">>] >>

\* e.g. __neg__: LambdaExpr('-(', *self._tokens, ')')
WrapExpr(o, prefix) ==
    LambdaExpr(<<StrV(prefix)>> \o o.tokens \o <<StrV(<<")">>)>>)

\* LambdaExpr.__round__
RoundExpr(o, n, h) ==
    LET ntokens == IF IsBuilder(n) THEN h[n.n].tokens ELSE <<n>>
    IN LambdaExpr(<<StrV(<<"r", "o", "u", "n", "d", "(">>)>> \o o.tokens
                  \o <<StrV(<<",">>)>> \o ntokens \o <<StrV(<<")">>)>>)

\* LambdaExpr.__getitem__: LambdaExpr('(', *self._tokens, f')[{key}]')
GetItemExpr(o, key, h) ==
    LambdaExpr(<<StrV(<<"(">>)>> \o o.tokens
               \o <<StrV(<<")", "[">> \o PyStr(key, h) \o <<"]">>)>>)

\* LambdaExpr.__setitem__: LambdaExpr('(', *self._tokens, f')[{key}]={value}')
SetItemExpr(o, key, value, h) ==
    LambdaExpr(<<StrV(<<"(">>)>> \o o.tokens
               \o <<StrV(<<")", "[">> \o PyStr(key, h) \o <<"]", "=">> \o PyStr(value, h))>>)

\* LambdaExpr.__delitem__: LambdaExpr('del (', *self._tokens, f')[{key}]')
DelItemExpr(o, key, h) ==
    LambdaExpr(<<StrV(<<"d", "e", "l", " ", "(">>)>> \o o.tokens
               \o <<StrV(<<")", "[">> \o PyStr(key, h) \o <<"]">>)>>)

\* LambdaExpr.__contains__: LambdaExpr(item, ' in (', *self._tokens, ')')
ContainsExpr(o, item) ==
    LambdaExpr(<<item, StrV(<<" ", "i", "n", " ", "(">>)>> \o o.tokens \o <<StrV(<<")">>)>>)

\* args_formatter's for loop over the arguments after the first
RECURSIVE RestArgs(_)
RestArgsUnchecked(args) ==
    IF args = <<>> THEN [raised |-> FALSE, out |-> <<>>]
    ELSE LET r == RestArgs(Tail(args))
         IN [raised |-> r.raised, out |-> <<StrV(<<",">>), Head(args)>> \o r.out]
RestArgs(args) ==
    IF args = <<>> THEN [raised |-> FALSE, out |-> <<>>]
    ELSE IF ~IsStr(Head(args)) THEN [raised |-> TRUE, out |-> <<>>]
    ELSE LET r == RestArgs(Tail(args))
         IN [raised |-> r.raised, out |-> <<StrV(<<",">>), Head(args)>> \o r.out]

\* args_formatter: what it yields, whether it raised TypeError, and the
\* need_kwarg_comma it leaves
ArgsFormatter(args) ==
    IF args = <<>> THEN [raised |-> FALSE, out |-> <<>>, comma |-> FALSE]
    ELSE IF ~IsStr(args[1]) THEN [raised |-> TRUE, out |-> <<>>, comma |-> FALSE]
    ELSE LET r == RestArgs(Tail(args))
         IN [raised |-> r.raised, out |-> <<args[1]>> \o r.out, comma |-> TRUE]

\* kwargs_formatter's for loop over the items after the first
RECURSIVE RestKwargs(_)
RestKwargs(kwargs) ==
    IF kwargs = <<>> THEN [raised |-> FALSE, out |-> <<>>]
    ELSE IF ~IsStr(Head(kwargs).v) THEN [raised |-> TRUE, out |-> <<>>]
    ELSE LET r == RestKwargs(Tail(kwargs))
         IN [raised |-> r.raised,
             out |-> <<StrV(<<",">> \o Head(kwargs).k \o <<"=">>), Head(kwargs).v>> \o r.out]

\* kwargs_formatter, run with the need_kwarg_comma args_formatter left
KwargsFormatterNoComma(kwargs, comma) ==
    IF kwargs = <<>> THEN [raised |-> FALSE, out |-> <<>>]
    ELSE IF ~IsStr(kwargs[1].v) THEN [raised |-> TRUE, out |-> <<>>]
    ELSE LET r == RestKwargs(Tail(kwargs))
         IN [raised |-> r.raised,
             out |-> <<StrV(kwargs[1].k \o <<"=">>), kwargs[1].v>> \o r.out]
KwargsFormatter(kwargs, comma) ==
    IF kwargs = <<>> THEN [raised |-> FALSE, out |-> <<>>]
    ELSE IF ~IsStr(kwargs[1].v) THEN [raised |-> TRUE, out |-> <<>>]
    ELSE LET r == RestKwargs(Tail(kwargs))
         IN [raised |-> r.raised,
             out |-> (IF comma THEN <<StrV(<<",">>)>> ELSE <<>>)
                     \o <<StrV(kwargs[1].k \o <<"=">>), kwargs[1].v>> \o r.out]

\* whether LambdaExpr._ raises TypeError: the generators are unpacked in
\* order, args_formatter first
ApplyRaises(args, kwargs) ==
    LET a == ArgsFormatter(args)
    IN a.raised \/ KwargsFormatter(kwargs, a.comma).raised

\* LambdaExpr._: LambdaExpr('(', *self._tokens, ')(', *args_formatter(),
\* *kwargs_formatter(), ')')
ApplyExpr(o, args, kwargs) ==
    LET a == ArgsFormatter(args)
        k == KwargsFormatter(kwargs, a.comma)
    IN LambdaExpr(<<StrV(<<"(">>)>> \o o.tokens \o <<StrV(<<")", "(">>)>>
                  \o a.out \o k.out \o <<StrV(<<")">>)>>)

----------------------------------------------------------------------------
(* The inputs the operations are tried on. *)

NameX == <<"x">>
NameY == <<"y">>

\* names handed to LambdaVar: two identifiers, a reserved word, a text that
\* is no identifier, and the positional marker's name
VarNames == {NameX, NameY, <<"i", "f">>, <<"1", "a">>, ArgsName}

\* right operands, keys, items and values that are not builders
Literals == {IntV(1), StrV(NameY)}
Operands(h) == Literals \cup {ObjV(j) : j \in 1..Len(h)}

\* fragments handed to the LambdaExpr constructor
RawTokens == {<<>>, <<StrV(NameY)>>}

AttrNames == {<<"r", "e", "a", "l">>}

\* arguments handed to `_`: an expression text and an int
ApplyVals == {StrV(NameY), IntV(4)}
KwKeys == {<<"k">>, <<"w">>}

ArgLists(n) == UNION {[1..m -> ApplyVals] : m \in 0..n}
\* a dict's items in insertion order: the keys are distinct
KwLists(n) ==
    {kw \in UNION {[1..m -> [k : KwKeys, v : ApplyVals]] : m \in 0..n} :
        \A a, b \in DOMAIN kw : a # b => kw[a].k # kw[b].k}

\* the precision handed to round
RoundArgs(h) == {NoneV, IntV(1)} \cup {ObjV(j) : j \in 1..Len(h)}

\* the argument a builder is invoked with
CallVals == {5}

----------------------------------------------------------------------------
(* The state machine. *)

NoRet == [op |-> "init", status |-> "ok", obj |-> 0, self |-> 0, other |-> NoneV,
          other2 |-> NoneV, tok |-> <<>>, pargs |-> <<>>, kwargs |-> <<>>,
          res |-> <<>>, arg |-> 0]

Op(name, i) == [NoRet EXCEPT !.op = name, !.self = i]

Init ==
    /\ registered = {}
    /\ heap = <<>>
    /\ argsInstance = 0
    /\ kwargsInstance = 0
    /\ ret = NoRet
    /\ evalRuns = <<>>
    /\ evalDone = <<>>
    /\ first = <<>>
    /\ limit = MaxHeap

\* the heap after object o was created
HeapOverwrite(h, o) == IF h = <<>> THEN <<o>> ELSE [h EXCEPT ![Len(h)] = o]
HeapNew(h, o) == Append(h, o)

\* an operation that returns the new builder o
Returns(r, o) ==
    /\ Len(heap) < limit
    /\ heap' = HeapNew(heap, o)
    /\ evalRuns' = Append(evalRuns, 0)
    /\ evalDone' = Append(evalDone, 0)
    /\ first' = Append(first, <<>>)
    /\ ret' = [r EXCEPT !.obj = Len(heap) + 1]
    /\ UNCHANGED <<registered, argsInstance, kwargsInstance, limit>>

\* an operation that raises err
Raises(r, err) ==
    /\ ret' = [r EXCEPT !.status = err]
    /\ UNCHANGED <<registered, heap, argsInstance, kwargsInstance, evalRuns, evalDone,
                   first, limit>>

\* LambdaVar.__init__'s first test: name in _registered_vars
NeverConflicts(name, reg) == FALSE
NameConflict(name, reg) == name \in reg

\* LambdaVar.__init__'s second test: not name.isidentifier() or iskeyword(name)
InvalidNameNoKeywords(name) == ~IsIdentifier(name)
InvalidName(name) == ~IsIdentifier(name) \/ IsKeyword(name)

\* LambdaVar(name)
NewLambdaVar(name) ==
    LET r == [Op("LambdaVar", 0) EXCEPT !.tok = name]
    IN IF NameConflict(name, registered) THEN Raises(r, "NameConflict")
       ELSE IF InvalidName(name) THEN Raises(r, "InvalidIdentifier")
       ELSE /\ Len(heap) < limit
            /\ registered' = registered \cup {name}
            /\ heap' = HeapNew(heap, LambdaVar(name))
            /\ evalRuns' = Append(evalRuns, 0)
            /\ evalDone' = Append(evalDone, 0)
            /\ first' = Append(first, <<>>)
    /\ first' = Append(first, <<>>)
            /\ ret' = [r EXCEPT !.obj = Len(heap) + 1]
            /\ UNCHANGED <<argsInstance, kwargsInstance, limit>>

\* hasattr(cls, 'instance')
NeverHasInstance(inst) == FALSE
HasInstance(inst) == inst # 0

\* LambdaArgs()
NewLambdaArgs ==
    LET r == Op("LambdaArgs", 0)
    IN IF HasInstance(argsInstance)
       THEN /\ ret' = [r EXCEPT !.obj = argsInstance]
            /\ UNCHANGED <<registered, heap, argsInstance, kwargsInstance, evalRuns,
                           evalDone, first, limit>>
       ELSE /\ Len(heap) < limit
            /\ heap' = HeapNew(heap, Marker("LambdaArgs", ArgsName))
            /\ argsInstance' = Len(heap) + 1
            /\ registered' = registered \cup {ArgsName}
            /\ evalRuns' = Append(evalRuns, 0)
            /\ evalDone' = Append(evalDone, 0)
            /\ first' = Append(first, <<>>)
    /\ first' = Append(first, <<>>)
            /\ ret' = [r EXCEPT !.obj = Len(heap) + 1]
            /\ UNCHANGED <<kwargsInstance, limit>>

\* LambdaKwargs()
NewLambdaKwargs ==
    LET r == Op("LambdaKwargs", 0)
    IN IF HasInstance(kwargsInstance)
       THEN /\ ret' = [r EXCEPT !.obj = kwargsInstance]
            /\ UNCHANGED <<registered, heap, argsInstance, kwargsInstance, evalRuns,
                           evalDone, first, limit>>
       ELSE /\ Len(heap) < limit
            /\ heap' = HeapNew(heap, Marker("LambdaKwargs", KwargsName))
            /\ kwargsInstance' = Len(heap) + 1
            /\ registered' = registered \cup {KwargsName}
            /\ evalRuns' = Append(evalRuns, 0)
            /\ evalDone' = Append(evalDone, 0)
            /\ first' = Append(first, <<>>)
    /\ first' = Append(first, <<>>)
            /\ ret' = [r EXCEPT !.obj = Len(heap) + 1]
            /\ UNCHANGED <<argsInstance, limit>>

\* LambdaExpr(*tokens)
NewLambdaExpr(tokens) ==
    Returns([Op("LambdaExpr", 0) EXCEPT !.pargs = tokens], LambdaExpr(tokens))

\* self.<name>
GetAttr(i, name) ==
    Returns([Op("__getattr__", i) EXCEPT !.tok = name], GetAttrExpr(heap[i], name))

\* self._(*args, **kwargs)
Apply(i, args, kwargs) ==
    LET r == [Op("_", i) EXCEPT !.pargs = args, !.kwargs = kwargs]
    IN IF ApplyRaises(args, kwargs) THEN Raises(r, "TypeError")
       ELSE Returns(r, ApplyExpr(heap[i], args, kwargs))

\* one of the comparison or arithmetic methods: self._collapse(other, tok)
BinaryOp(i, right, k) ==
    Returns([Op("_collapse", i) EXCEPT !.other = right, !.tok = InfixOps[k].tok],
            Collapse(heap[i], right, InfixOps[k].tok, heap))

\* one of the wrapping methods
WrapOp(i, k) ==
    Returns([Op("wrap", i) EXCEPT !.tok = WrapOps[k].tok], WrapExpr(heap[i], WrapOps[k].tok))

\* round(self, n)
Round(i, n) ==
    Returns([Op("__round__", i) EXCEPT !.other = n], RoundExpr(heap[i], n, heap))

\* self.__getitem__(key)
GetItem(i, key) ==
    Returns([Op("__getitem__", i) EXCEPT !.other = key], GetItemExpr(heap[i], key, heap))

\* self.__setitem__(key, value)
SetItem(i, key, value) ==
    Returns([Op("__setitem__", i) EXCEPT !.other = key, !.other2 = value],
            SetItemExpr(heap[i], key, value, heap))

\* self.__delitem__(key)
DelItem(i, key) ==
    Returns([Op("__delitem__", i) EXCEPT !.other = key], DelItemExpr(heap[i], key, heap))

\* self.__contains__(item)
Contains(i, item) ==
    Returns([Op("__contains__", i) EXCEPT !.other = item], ContainsExpr(heap[i], item))

\* str(self)
Render(i) ==
    /\ ret' = [Op("__str__", i) EXCEPT !.res = StrOf(heap[i], heap)]
    /\ UNCHANGED <<registered, heap, argsInstance, kwargsInstance, evalRuns, evalDone,
                   first, limit>>

\* LambdaExpr._eval's assignment: self._lambda = evaluated_lambda
ForgetLambda(o, src) == o
StoreLambda(o, src) == [o EXCEPT !.lam = Compiled(src)]

\* the attribute name __call__ looks up
LambdaAttr == <<"_", "l", "a", "m", "b", "d", "a">>

\* the function builder i's first successful invocation called
NoteFirst(f, i, src) == IF f[i] = <<>> THEN [f EXCEPT ![i] = src] ELSE f

\* self._lambda(arg) on builder t of heap h, where t's _lambda is set: the
\* stored function, or _call_monkey_patcher and with it _eval.  i is the
\* builder the caller invoked.  The result of calling a compiled function is
\* named by the function's source text and the argument.
Invoke(r, i, t, h, runs, done, f) ==
    LET o == h[t]
        src == LambdaSrc(o, registered, h)
        out == EvalOutcome(o, registered, h)
    IN IF o.lam.set = "compiled"
       THEN /\ heap' = h
            /\ evalRuns' = runs
            /\ evalDone' = done
            /\ ret' = [r EXCEPT !.res = o.lam.src]
            /\ first' = NoteFirst(f, i, o.lam.src)
       ELSE /\ runs[t] < MaxEvals
            /\ evalRuns' = [runs EXCEPT ![t] = @ + 1]
            /\ IF out = "ok"
               THEN /\ heap' = [h EXCEPT ![t] = StoreLambda(o, src)]
                    /\ evalDone' = [done EXCEPT ![t] = @ + 1]
                    /\ ret' = [r EXCEPT !.res = src]
                    /\ first' = NoteFirst(f, i, src)
               ELSE /\ heap' = h
                    /\ evalDone' = done
                    /\ ret' = [r EXCEPT !.status = out]
                    /\ first' = f

\* self(arg): LambdaExpr.__call__.  A marker has no _lambda (its __init__
\* assigns none), so the lookup falls to __getattr__, which returns a new
\* builder, and that builder is the one invoked.
Call(i, a) ==
    LET r == [Op("__call__", i) EXCEPT !.arg = a]
    IN /\ UNCHANGED <<registered, argsInstance, kwargsInstance, limit>>
       /\ IF heap[i].lam.set = "unset"
          THEN /\ Len(heap) < limit
               /\ Invoke([r EXCEPT !.obj = Len(heap) + 1], i, Len(heap) + 1,
                         HeapNew(heap, GetAttrExpr(heap[i], LambdaAttr)),
                         Append(evalRuns, 0), Append(evalDone, 0), Append(first, <<>>))
          ELSE Invoke(r, i, i, heap, evalRuns, evalDone, first)

Min(a, b) == IF a < b THEN a ELSE b

\* The registry and invocation machine: placeholders and builders are
\* created, combined by the comparison and arithmetic methods, rendered and
\* invoked, in any order.
Next ==
    \/ \E name \in VarNames : NewLambdaVar(name)
    \/ NewLambdaArgs
    \/ NewLambdaKwargs
    \/ \E tokens \in RawTokens : NewLambdaExpr(tokens)
    \/ \E i \in 1..Len(heap), right \in Operands(heap),
          k \in 1..Min(NumInfix, Len(InfixOps)) : BinaryOp(i, right, k)
    \/ \E i \in 1..Len(heap) : Render(i)
    \/ \E i \in 1..Len(heap), a \in CallVals : Call(i, a)

Spec == Init /\ [][Next]_vars

----------------------------------------------------------------------------
(* Every operation applied once to a program state.  The states are those a  *)
(* program is in after the constructions, combinations and invocations      *)
(* listed in StepHeaps.                                                      *)

VarX == LambdaVar(NameX)
VarY == LambdaVar(NameY)
ArgsMarker == Marker("LambdaArgs", ArgsName)
KwargsMarker == Marker("LambdaKwargs", KwargsName)

\* (x)+y, built as x + y with x and y the first two objects of the heap
XPlusY == Collapse(VarX, ObjV(2), InfixOps[7].tok, <<VarX, VarY>>)

\* (x)+1 after its first invocation
XPlusOne == Collapse(VarX, IntV(1), InfixOps[7].tok, <<VarX>>)
XPlusOneCalled == StoreLambda(XPlusOne, LambdaSrc(XPlusOne, {NameX}, <<VarX, XPlusOne>>))

StepHeaps == {
    <<VarX, VarY>>,
    <<VarY, VarX>>,
    <<VarX, ArgsMarker>>,
    <<VarX, ArgsMarker, KwargsMarker>>,
    <<VarX, VarY, XPlusY>>,
    <<VarX, XPlusOneCalled>>,
    <<LambdaExpr(<<>>)>> }

Positions(h, cls) == {i \in 1..Len(h) : h[i].cls = cls}
PositionOf(h, cls) == IF Positions(h, cls) = {} THEN 0 ELSE CHOOSE i \in Positions(h, cls) : TRUE
Invoked(o) == IF o.lam.set = "compiled" THEN 1 ELSE 0

StepInit ==
    \E h \in StepHeaps :
        /\ heap = h
        /\ registered = {h[i].tokens[1].s : i \in {j \in 1..Len(h) : h[j].cls # "LambdaExpr"}}
        /\ argsInstance = PositionOf(h, "LambdaArgs")
        /\ kwargsInstance = PositionOf(h, "LambdaKwargs")
        /\ ret = NoRet
        /\ evalRuns = [i \in 1..Len(h) |-> Invoked(h[i])]
        /\ evalDone = [i \in 1..Len(h) |-> Invoked(h[i])]
        /\ first = [i \in 1..Len(h) |-> h[i].lam.src]
        /\ limit = Len(h) + 1

\* no operation was applied yet
Fresh == ret.op = "init"

StepNext ==
    \/ Fresh /\ \E name \in VarNames : NewLambdaVar(name)
    \/ Fresh /\ NewLambdaArgs
    \/ Fresh /\ NewLambdaKwargs
    \/ Fresh /\ \E tokens \in RawTokens : NewLambdaExpr(tokens)
    \/ Fresh /\ \E i \in 1..Len(heap), name \in AttrNames : GetAttr(i, name)
    \/ Fresh /\ \E i \in 1..Len(heap), args \in ArgLists(MaxArgs) :
                  \E kwargs \in KwLists(MaxArgs - Len(args)) : Apply(i, args, kwargs)
    \/ Fresh /\ \E i \in 1..Len(heap), right \in Operands(heap),
                  k \in 1..Min(NumInfix, Len(InfixOps)) : BinaryOp(i, right, k)
    \/ Fresh /\ \E i \in 1..Len(heap), k \in 1..Min(NumWrap, Len(WrapOps)) : WrapOp(i, k)
    \/ Fresh /\ \E i \in 1..Len(heap), n \in RoundArgs(heap) : Round(i, n)
    \/ Fresh /\ \E i \in 1..Len(heap), key \in Operands(heap) : GetItem(i, key)
    \/ Fresh /\ \E i \in 1..Len(heap), key \in Operands(heap), value \in Operands(heap) :
                  SetItem(i, key, value)
    \/ Fresh /\ \E i \in 1..Len(heap), key \in Operands(heap) : DelItem(i, key)
    \/ Fresh /\ \E i \in 1..Len(heap), item \in Operands(heap) : Contains(i, item)
    \/ Fresh /\ \E i \in 1..Len(heap) : Render(i)
    \/ Fresh /\ \E i \in 1..Len(heap), a \in CallVals : Call(i, a)

StepSpec == StepInit /\ [][StepNext]_vars

----------------------------------------------------------------------------
(* The claims. *)

ValidName(n) == IsIdentifier(n) /\ ~IsKeyword(n)
Placeholders(n) == {i \in 1..Len(heap) : heap[i].cls = "LambdaVar" /\ heap[i].tokens = <<StrV(n)>>}

\* C1, the state part: every registered identifier has exactly one placeholder,
\* whose fragments are the name alone.
C1_OnePlaceholder ==
    \A n \in registered : ValidName(n) => Cardinality(Placeholders(n)) = 1

\* C1, the step part: LambdaVar(n) for a valid identifier n succeeds and
\* registers n when n was not registered, and otherwise raises the
\* naming-conflict error and changes neither the registry nor any builder.
C1_Step ==
    \A n \in VarNames :
        (ValidName(n) /\ ret'.op = "LambdaVar" /\ ret'.tok = n) =>
            IF n \in registered
            THEN /\ ret'.status = "NameConflict"
                 /\ registered' = registered
                 /\ heap' = heap
            ELSE /\ ret'.status = "ok"
                 /\ registered' = registered \cup {n}
                 /\ ret'.obj = Len(heap) + 1
                 /\ heap'[ret'.obj].tokens = <<StrV(n)>>

\* C1: the first LambdaVar(n) succeeds and registers n; every later
\* LambdaVar(n) raises the naming-conflict error, leaves the registry
\* unchanged and leaves the first placeholder with the fragments (n,).
C1_RegisterOnce == [](C1_OnePlaceholder) /\ [][C1_Step]_vars

\* C1's case: x was created and invoked, and LambdaVar('x') was then refused.
C1_Witness ==
    /\ ret.op = "LambdaVar" /\ ret.tok = NameX /\ ret.status = "NameConflict"
    /\ \E i \in Placeholders(NameX) : evalDone[i] = 1

\* C3 as stated: _eval runs at most once on every builder.
C3_EvalAtMostOnce == \A i \in 1..Len(heap) : evalRuns[i] <= 1

\* C3, the state part: _eval completed at most once on every builder, a
\* builder holds a compiled function exactly when it did, and a successful
\* invocation of a builder calls the function its first successful invocation
\* called.
C3_Memoized ==
    /\ \A i \in 1..Len(heap) :
          /\ evalDone[i] <= 1
          /\ (heap[i].lam.set = "compiled") <=> (evalDone[i] = 1)
    /\ (ret.op = "__call__" /\ ret.status = "ok") => ret.res = first[ret.self]

\* C3, the step part: once a builder holds a compiled function, no step
\* enters _eval on it or replaces the function.
C3_Step ==
    \A i \in 1..Len(heap) :
        heap[i].lam.set = "compiled" =>
            /\ heap'[i].lam = heap[i].lam
            /\ evalRuns'[i] = evalRuns[i]

\* C3, amended: _eval completes at most once on every builder, and after it
\* has every invocation calls the stored function without entering _eval, so
\* two invocations with the same arguments call the same function even when
\* variables are registered in between; an _eval that raises stores nothing.
C3_CompiledOnce == [](C3_Memoized) /\ [][C3_Step]_vars

\* C3's case: a builder compiled by its first invocation was invoked again
\* after a name among its fragments was registered.
C3_Witness ==
    /\ ret.op = "__call__" /\ ret.status = "ok"
    /\ evalRuns[ret.self] = 1 /\ evalDone[ret.self] = 1
    /\ ret.res = heap[ret.self].lam.src
    /\ LambdaSrc(heap[ret.self], registered, heap) # heap[ret.self].lam.src

\* the registry holds valid identifiers and the two marker names only
RegistryValid == \A n \in registered : n \in {ArgsName, KwargsName} \/ ValidName(n)

\* C6 as stated: LambdaVar(name) with an invalid name raises the
\* invalid-identifier error in every registry state, and every registry entry
\* but the marker names is a valid identifier.
C6_AlwaysInvalidIdentifier ==
    /\ (ret.op = "LambdaVar" /\ ~ValidName(ret.tok)) => ret.status = "InvalidIdentifier"
    /\ RegistryValid

\* C6, the state part: an invalid name was refused, with the naming-conflict
\* error when it is registered and the invalid-identifier error otherwise
C6_Refused ==
    /\ (ret.op = "LambdaVar" /\ ~ValidName(ret.tok)) =>
          ret.status = (IF ret.tok \in registered THEN "NameConflict" ELSE "InvalidIdentifier")
    /\ RegistryValid

\* C6, the step part: refusing an invalid name changes no registry entry and
\* no builder
C6_Step ==
    (ret'.op = "LambdaVar" /\ ~ValidName(ret'.tok)) => registered' = registered /\ heap' = heap

\* C6, amended: LambdaVar(name) with an invalid name always fails and leaves
\* the registry unchanged, with the invalid-identifier error when the name is
\* not registered and with the naming-conflict error when it is (a marker's
\* name after the marker's first access); every registry entry but the marker
\* names is a valid identifier.
C6_InvalidRefused == [](C6_Refused) /\ [][C6_Step]_vars

\* C6's case: with x registered, LambdaVar('if') raised the invalid-identifier
\* error.
C6_Witness ==
    /\ ret.op = "LambdaVar" /\ ret.tok = <<"i", "f">> /\ ret.status = "InvalidIdentifier"
    /\ NameX \in registered

\* C7, the state part: at most one object of each marker class exists, and
\* the cached instance holds the marker's single fragment and is registered.
C7_Single ==
    /\ Cardinality(Positions(heap, "LambdaArgs")) <= 1
    /\ Cardinality(Positions(heap, "LambdaKwargs")) <= 1
    /\ argsInstance # 0 =>
          /\ Positions(heap, "LambdaArgs") = {argsInstance}
          /\ heap[argsInstance].tokens = <<StrV(ArgsName)>>
          /\ ArgsName \in registered
    /\ kwargsInstance # 0 =>
          /\ Positions(heap, "LambdaKwargs") = {kwargsInstance}
          /\ heap[kwargsInstance].tokens = <<StrV(KwargsName)>>
          /\ KwargsName \in registered
    /\ ret.op = "LambdaArgs" => ret.obj = argsInstance /\ argsInstance # 0
    /\ ret.op = "LambdaKwargs" => ret.obj = kwargsInstance /\ kwargsInstance # 0

\* C7, the step part: a call after the first returns the cached instance and
\* changes neither the registry nor any builder.
C7_Step ==
    /\ (ret'.op = "LambdaArgs" /\ argsInstance # 0) =>
          ret'.obj = argsInstance /\ registered' = registered /\ heap' = heap
    /\ (ret'.op = "LambdaKwargs" /\ kwargsInstance # 0) =>
          ret'.obj = kwargsInstance /\ registered' = registered /\ heap' = heap

\* C7: the first LambdaArgs() / LambdaKwargs() creates the one instance with
\* the fragment '*args' / '**kwargs' and registers the name; every later call
\* returns that instance and leaves the registry unchanged.
C7_Singletons == [](C7_Single) /\ [][C7_Step]_vars

\* C7's case: LambdaArgs() was called again after LambdaKwargs() had created
\* its instance, and returned the instance made before it.
C7_Witness ==
    /\ ret.op = "LambdaArgs" /\ ret.obj = argsInstance
    /\ kwargsInstance > argsInstance /\ argsInstance > 0

Combinators == {"__getattr__", "_", "_collapse", "wrap", "__round__", "__getitem__",
                "__setitem__", "__delitem__", "__contains__"}

\* C8, one step: no operation changes the fragments or the class of an existing
\* builder or removes one, every combinator that succeeds returns a new
\* builder, and the registry only grows, and only by a LambdaVar construction
\* that succeeds or by the first access to a marker.
C8_Step ==
    /\ Len(heap') >= Len(heap)
    /\ \A i \in 1..Len(heap) :
          heap'[i].tokens = heap[i].tokens /\ heap'[i].cls = heap[i].cls
    /\ (ret'.op \in Combinators /\ ret'.status = "ok") =>
          ret'.obj = Len(heap) + 1 /\ Len(heap') = Len(heap) + 1
    /\ registered \subseteq registered'
    /\ registered' # registered =>
          \/ ret'.op = "LambdaVar" /\ ret'.status = "ok"
                /\ registered' = registered \cup {ret'.tok}
          \/ ret'.op = "LambdaArgs" /\ argsInstance = 0
                /\ registered' = registered \cup {ArgsName}
          \/ ret'.op = "LambdaKwargs" /\ kwargsInstance = 0
                /\ registered' = registered \cup {KwargsName}

\* C8: every step of every operation keeps the existing builders' fragments
\* and only grows the registry, through LambdaVar or a marker's first access.
C8_Frame == [][C8_Step]_vars

\* C8's case: x + y was built from the placeholders x and y, which still hold
\* their single fragments, with both names and nothing else registered.
C8_Witness ==
    /\ ret.op = "_collapse" /\ ret.status = "ok" /\ ret.obj = 3 /\ Len(heap) = 3
    /\ ret.self = 1 /\ ret.other = ObjV(2)
    /\ heap[1] = VarX /\ heap[2] = VarY
    /\ registered = {NameX, NameY}

\* the text of the right operand of _collapse
OperandText(v) == IF v.t = "obj" THEN ReprOf(heap[v.n], heap) ELSE PyStr(v, heap)

\* C4: a._collapse(b, op) renders as "(" + render(a) + ")" + op + render(b)
\* for a builder b and as "(" + render(a) + ")" + op + str(b) for a literal b.
C4_Compositional ==
    (ret.op = "_collapse" /\ ret.status = "ok") =>
        /\ ReprOf(heap[ret.obj], heap)
              = <<"(">> \o ReprOf(heap[ret.self], heap) \o <<")">> \o ret.tok
                \o OperandText(ret.other)
        /\ StrOf(heap[ret.obj], heap)
              = <<"(">> \o StrOf(heap[ret.self], heap) \o <<")">> \o ret.tok
                \o (IF ret.other.t = "obj" THEN StrOf(heap[ret.other.n], heap)
                    ELSE PyStr(ret.other, heap))

\* C4's case: (x)+y was combined with a builder of several fragments.
C4_Witness ==
    /\ ret.op = "_collapse" /\ ret.status = "ok"
    /\ Len(heap[ret.self].tokens) > 1
    /\ ret.other.t = "obj" /\ Len(heap[ret.other.n].tokens) > 1

NonStr(args, kwargs) ==
    \/ \E k \in 1..Len(args) : args[k].t # "str"
    \/ \E k \in 1..Len(kwargs) : kwargs[k].v.t # "str"

\* C5, one step: `_` raises TypeError exactly when some positional argument or keyword
\* value is not a str, wherever it stands, and then produces no builder and
\* changes neither the builders nor the registry.
C5_Step ==
    ret'.op = "_" =>
        /\ (ret'.status = "TypeError") <=> NonStr(ret'.pargs, ret'.kwargs)
        /\ ret'.status = "TypeError" =>
              ret'.obj = 0 /\ heap' = heap /\ registered' = registered

\* C5: every call of `_` with a non-str argument or keyword value raises
\* TypeError, produces no builder and changes no builder and no registry entry.
C5_TypeError == [][C5_Step]_vars

\* C5's case: the second positional argument was the int, after a str.
C5_Witness ==
    /\ ret.op = "_" /\ ret.status = "TypeError"
    /\ Len(ret.pargs) = 2 /\ ret.pargs[1].t = "str" /\ ret.pargs[2].t = "int"

\* the texts `_` separates by commas: the positional texts, then key=value
ArgTexts(args, kwargs) ==
    [k \in 1..Len(args) |-> args[k].s]
        \o [k \in 1..Len(kwargs) |-> kwargs[k].k \o <<"=">> \o kwargs[k].v.s]

\* C9: x._(a1..ap, k1=v1..kk=vk) renders as "(" + render(x) + ")(" + the
\* argument texts joined by single commas + ")".
C9_CommaJoined ==
    (ret.op = "_" /\ ret.status = "ok") =>
        ReprOf(heap[ret.obj], heap)
            = <<"(">> \o ReprOf(heap[ret.self], heap) \o <<")", "(">>
              \o Join(<<",">>, ArgTexts(ret.pargs, ret.kwargs)) \o <<")">>

\* C9's case: one positional and one keyword argument.
C9_Witness ==
    /\ ret.op = "_" /\ ret.status = "ok"
    /\ Len(ret.pargs) = 1 /\ Len(ret.kwargs) = 1

ArgSet(o) == Range(GetArgs(o, registered))

\* the registered names the operands of the last combinator refer to
OperandNames ==
    ArgSet(heap[ret.self])
        \cup (IF ret.other.t = "obj" THEN ArgSet(heap[ret.other.n]) ELSE {})
        \cup ({ret.pargs[k].s : k \in 1..Len(ret.pargs)} \cap registered)
        \cup ({ret.kwargs[k].v.s : k \in 1..Len(ret.kwargs)} \cap registered)

\* C2: with x and y the only registered names, a builder made from operands
\* that refer to x and y by a binary operator, a wrapper, round, `_`,
\* attribute access or a subscript has the parameter list ["x", "y"].
C2_ParamsXY ==
    (/\ ret.op \in {"_collapse", "wrap", "__round__", "_", "__getattr__", "__getitem__"}
     /\ ret.status = "ok"
     /\ registered = {NameX, NameY}
     /\ OperandNames = {NameX, NameY})
        => GetArgs(heap[ret.obj], registered) = <<NameX, NameY>>

IsMarkerName(n) == n \in {ArgsName, KwargsName}

\* named parameters, then *args, then **kwargs
WellOrdered(params) ==
    \A a, b \in 1..Len(params) :
        a < b => /\ ~(IsMarkerName(params[a]) /\ ~IsMarkerName(params[b]))
                 /\ ~(params[a] = KwargsName /\ params[b] = ArgsName)

\* C10: the parameter list of a builder whose fragments hold a marker and
\* other registered names puts the named variables first, then '*args', then
\* '**kwargs'.
C10_MarkersLast ==
    \A i \in 1..Len(heap) :
        LET params == GetArgs(heap[i], registered)
        IN (\E k \in 1..Len(params) : IsMarkerName(params[k])) /\ Len(params) > 1
              => WellOrdered(params)

====
